---- MODULE Spec2Model ----
(***************************************************************************)
(* Model of src/AccessibilityManager.ts (AccessibilityManager and          *)
(* NavigationMode) and of the attach addon (attach, detach) of xterm.js.   *)
(*                                                                         *)
(* DOM nodes are natural numbers (fresh for every createElement), text is  *)
(* a sequence of tokens, a thrown TypeError is the value "threw" of        *)
(* lastResult with the state left as it was when the exception was raised. *)
(***************************************************************************)
EXTENDS Integers, Sequences, FiniteSets, TLC

\* ------------------------------------------------------------------ bounds
MaxRows == 2
InitRows == 1
MaxNodes == 3
MaxYdisp == 1
MaxOvershoot == 1
MaxDispose == 2
MaxQueue == 2
MaxText == 1
MaxTimers == 2
MaxTab == 2
MaxRequests == 3
MaxMessages == 3

\* ------------------------------------------------------- program constants
MAX_ROWS_TO_READ == 20

KeyEscape == 27
KeyArrowUp == 38
KeyArrowDown == 40
KeyOther == 65

KeyCodes == {KeyEscape, KeyArrowUp, KeyArrowDown, KeyOther}

Chars == {"a", " ", "\n"}
Nbsp == "nbsp"
TooMuchOutput == "Too much output to announce, navigate to rows manually to read"
EnteredMessage == "Entered line navigation mode"
LeftMessage == "Left line navigation mode"

VARIABLES
  \* Terminal collaborator
  rows,                 \* terminal.rows
  ydisp,                \* terminal.buffer.ydisp
  elementHasRoot,       \* terminal.element contains the accessibility tree root
  focus,                \* which element has input focus
  \* AccessibilityManager
  disposed,             \* the manager's fields are null
  rowElements,          \* the array shared by the manager and NavigationMode
  rowContainerChildren, \* rowContainer.children
  nodesCreated,         \* number of row nodes created so far
  liveText,             \* liveRegion.textContent, a sequence of tokens
  liveRegionLineCount,
  charsToConsume,
  liveAttached,         \* liveRegion.parentNode is the tree root
  reattachTimers,       \* pending setTimeout(..., 0) reattachments
  isMac,
  \* RenderDebouncer
  debPending,           \* a flush is scheduled and has not completed
  debRange,             \* <<>> or <<rowStart, rowEnd>>
  flushTimers,          \* deferred flush callbacks waiting in the event loop
  \* NavigationMode
  isNavigationModeActive,
  navigationModeFocusedRow, \* <<>> (undefined) or <<row>>
  idAttr,               \* the row nodes whose id is the active item id
  containerTabIndex,
  containerRole,
  containerActiveDescendant,
  \* observations
  lastEvent,            \* the handler that ran last
  lastResult,           \* what it returned: "true", "false", "void" or "threw"
  lastKey,              \* the key code of that handler's event, 0 when it has none
  reqRange,             \* union of the ranges requested since the last flush
  reqCount,             \* number of requests merged into reqRange
  lastRender,           \* the range the last handler handed to _renderRows, or <<>>
  overflowCleared,      \* the last handler cleared a live region that had overflowed
  shrunkFrom,           \* the row array before the last handler, if that shrank it, else <<>>
  scrollRequests,       \* scrollLines(-1) calls made by the last handler
  elementCalls,         \* calls of terminal.element.removeChild
  disposeCalls,
  \* attach addon
  attachBuffered,       \* the buffered argument of attach
  attachListening,      \* term._getMessage is a 'message' listener of the socket
  attachSocketBuffer,   \* term._attachSocketBuffer, a value [kind, text]
  attachTimers,         \* pending setTimeout(term._flushBuffer, 10)
  attachWritten,        \* concatenation of what term.write received
  attachLastWrite,      \* kind of the value the last term.write received, "none" before
  attachReceived,       \* concatenation of the payloads of the messages received
  attachMessages        \* number of messages received

termVars == <<rows, ydisp, elementHasRoot, focus>>
rowVars == <<rowElements, rowContainerChildren, nodesCreated>>
liveVars == <<liveText, liveRegionLineCount, charsToConsume, liveAttached, reattachTimers>>
debVars == <<debPending, debRange, flushTimers>>
navVars == <<isNavigationModeActive, navigationModeFocusedRow, idAttr,
             containerTabIndex, containerRole, containerActiveDescendant>>
obsVars == <<lastEvent, lastKey, lastResult, reqRange, reqCount, lastRender, scrollRequests,
             overflowCleared, shrunkFrom>>
dispVars == <<disposed, elementCalls, disposeCalls>>

attachVars == <<attachBuffered, attachListening, attachSocketBuffer, attachTimers,
                attachWritten, attachLastWrite, attachReceived, attachMessages>>

a11yVars == <<termVars, rowVars, liveVars, debVars, navVars, obsVars, dispVars, isMac>>

vars == <<a11yVars, attachVars>>

\* ----------------------------------------------------------------- helpers
Min(a, b) == IF a < b THEN a ELSE b
Max(a, b) == IF a > b THEN a ELSE b

Front(s) == SubSeq(s, 1, Len(s) - 1)
Last(s) == s[Len(s)]

\* a[i] = x of a JavaScript array, 0-based i, for i <= a.length
SetAt(a, i, x) == IF i = Len(a) THEN Append(a, x) ELSE [a EXCEPT ![i + 1] = x]

\* a[i] of a JavaScript array is undefined outside 0 .. a.length-1
Defined(a, i) == i >= 0 /\ i < Len(a)

RemoveChild(children, n) == SelectSeq(children, LAMBDA c : c # n)

Union(range, s, e) ==
  IF range = <<>> THEN <<s, e>> ELSE <<Min(range[1], s), Max(range[2], e)>>

Overflowed == liveRegionLineCount = MAX_ROWS_TO_READ + 1

Observe(ev) ==
  /\ lastEvent' = ev
  /\ lastKey' = 0
  /\ lastRender' = <<>>
  /\ overflowCleared' = FALSE
  /\ shrunkFrom' = <<>>

\* a handler that runs _clearLiveRegion
ObserveClear(ev) ==
  /\ lastEvent' = ev
  /\ lastKey' = 0
  /\ lastRender' = <<>>
  /\ overflowCleared' = Overflowed
  /\ shrunkFrom' = <<>>

\* a key handler; cleared tells whether it ran _clearLiveRegion
ObserveKey(ev, keyCode, cleared) ==
  /\ lastEvent' = ev
  /\ lastKey' = keyCode
  /\ lastRender' = <<>>
  /\ overflowCleared' = (cleared /\ Overflowed)
  /\ shrunkFrom' = <<>>

\* JavaScript values of the attach addon: undefined / null, a string (text is
\* its characters) or an ArrayBuffer object
Undefined == [kind |-> "null", text |-> <<>>]
String(text) == [kind |-> "str", text |-> text]
ArrayBufferObject == [kind |-> "obj", text |-> <<>>]

\* ------------------------------------------------------------- constructor
InitialRows(n) == [i \in 1..n |-> i]

\* the state new AccessibilityManager(terminal) leaves
Constructed ==
  /\ rows = InitRows
  /\ ydisp = 0
  /\ elementHasRoot = TRUE
  /\ focus = "textarea"
  /\ disposed = FALSE
  /\ rowElements = InitialRows(rows)
  /\ rowContainerChildren = InitialRows(rows)
  /\ nodesCreated = rows
  /\ shrunkFrom = <<>>
  /\ liveText = <<>>
  /\ liveRegionLineCount = 0
  /\ charsToConsume = <<>>
  /\ liveAttached = TRUE
  /\ reattachTimers = 0
  /\ isMac \in BOOLEAN
  \* this._refreshRows() of the constructor
  /\ debPending = TRUE
  /\ debRange = <<0, rows - 1>>
  /\ flushTimers = 1
  /\ isNavigationModeActive = FALSE
  /\ navigationModeFocusedRow = <<>>
  /\ idAttr = {}
  /\ containerTabIndex = FALSE
  /\ containerRole = FALSE
  /\ containerActiveDescendant = FALSE
  /\ lastEvent = "constructor"
  /\ lastResult = "void"
  /\ lastKey = 0
  /\ reqRange = <<0, rows - 1>>
  /\ reqCount = 1
  /\ lastRender = <<>>
  /\ overflowCleared = FALSE
  /\ scrollRequests = 0
  /\ elementCalls = 0
  /\ disposeCalls = 0

\* attach has not been called
Init ==
  /\ Constructed
  /\ attachBuffered = FALSE
  /\ attachListening = FALSE
  /\ attachSocketBuffer = Undefined
  /\ attachTimers = 0
  /\ attachWritten = <<>>
  /\ attachLastWrite = "none"
  /\ attachReceived = <<>>
  /\ attachMessages = 0

\* the state attach(term, socket, bidirectional, buffered) leaves
InitAttach ==
  /\ Constructed
  /\ attachBuffered \in BOOLEAN
  /\ attachListening = TRUE
  /\ attachSocketBuffer = Undefined
  /\ attachTimers = 0
  /\ attachWritten = <<>>
  /\ attachLastWrite = "none"
  /\ attachReceived = <<>>
  /\ attachMessages = 0

\* a request for rows s..e was made
Requested(s, e) ==
  /\ reqRange' = Union(reqRange, s, e)
  /\ reqCount' = IF reqRange = <<>> THEN 1 ELSE reqCount + 1
  /\ reqCount' <= MaxRequests

\* ------------------------------------------------------------ RenderDebouncer
\* refresh(start, end): widen the recorded range, schedule a flush if none is
\* pending.  d is [pending, range, timers].
DebouncerRefresh(d, s, e) ==
  [pending |-> TRUE,
   range   |-> Union(d.range, s, e),
   timers  |-> IF d.pending THEN d.timers ELSE d.timers + 1]

\* refresh() without arguments asks for the full current viewport
FullViewport(termRows) == <<0, termRows - 1>>

Debouncer == [pending |-> debPending, range |-> debRange, timers |-> flushTimers]

\* ------------------------------------------------------------------ RowMirror
\* _refreshRows forwarding its start argument twice
refreshRowsStartOnly(start, end) == <<start, start>>

\* _refreshRows(start, end): the range handed to the debouncer
refreshRows(start, end) == <<start, end>>

\* the grow loop of _onResize; st is [elems, children, created]
RECURSIVE growRows(_, _, _)
growRows(st, i, termRows) ==
  IF i < termRows
  THEN growRows([elems    |-> SetAt(st.elems, i, st.created + 1),
                 children |-> Append(st.children, st.created + 1),
                 created  |-> st.created + 1], i + 1, termRows)
  ELSE st

\* the body of the shrink loop with shift() in place of pop()
popRowFromHead(st) ==
  [elems    |-> Tail(st.elems),
   children |-> RemoveChild(st.children, Head(st.elems)),
   created  |-> st.created]

\* _rowContainer.removeChild(_rowElements.pop())
popRow(st) ==
  [elems    |-> Front(st.elems),
   children |-> RemoveChild(st.children, Last(st.elems)),
   created  |-> st.created]

\* the shrink loop of _onResize
RECURSIVE shrinkRows(_, _)
shrinkRows(st, newRows) ==
  IF Len(st.elems) > newRows
  THEN shrinkRows(popRow(st), newRows)
  ELSE st

\* _refreshRowsDimensions reads _rowElements[i].style for i < terminal.rows
refreshRowsDimensionsThrows(elems, termRows) ==
  \E i \in 0..(termRows - 1) : ~Defined(elems, i)

\* _onResize without its shrink loop
onResizeGrowOnly(st, termRows, newRows) ==
  growRows(st, Len(st.children), termRows)

onResize(st, termRows, newRows) ==
  shrinkRows(growRows(st, Len(st.children), termRows), newRows)

\* the terminal sets its row count and emits 'resize' {cols, rows}
Resize(r) ==
  /\ ~disposed
  /\ LET st == onResize([elems |-> rowElements, children |-> rowContainerChildren,
                         created |-> nodesCreated], r, r)
     IN /\ st.created <= MaxNodes
        /\ rows' = r
        /\ rowElements' = st.elems
        /\ rowContainerChildren' = st.children
        /\ nodesCreated' = st.created
        /\ shrunkFrom' = IF Len(st.elems) < Len(rowElements) THEN rowElements ELSE <<>>
        \* a discarded node is referenced by nothing
        /\ idAttr' = idAttr \cap {st.elems[k] : k \in 1..Len(st.elems)}
        /\ lastResult' = IF refreshRowsDimensionsThrows(st.elems, r)
                         THEN "threw" ELSE "void"
  /\ lastEvent' = "resize"
  /\ lastKey' = 0
  /\ lastRender' = <<>>
  /\ overflowCleared' = FALSE
  /\ scrollRequests' = 0
  /\ UNCHANGED <<ydisp, elementHasRoot, focus, liveVars, debVars, isMac,
                 isNavigationModeActive, navigationModeFocusedRow,
                 containerTabIndex, containerRole, containerActiveDescendant,
                 reqRange, reqCount, dispVars, attachVars>>

\* 'refresh' {start, end} from the terminal
Refresh(s, e) ==
  /\ ~disposed
  /\ LET a == refreshRows(s, e)
         d == DebouncerRefresh(Debouncer, a[1], a[2])
     IN /\ debPending' = d.pending
        /\ debRange' = d.range
        /\ flushTimers' = d.timers
  /\ Requested(s, e)
  /\ Observe("refresh")
  /\ lastResult' = "void"
  /\ scrollRequests' = 0
  /\ UNCHANGED <<termVars, rowVars, liveVars, navVars, dispVars, isMac, attachVars>>

\* 'scroll' from the terminal: the viewport moved, the whole viewport is stale
Scroll(y) ==
  /\ ~disposed
  /\ y # ydisp
  /\ ydisp' = y
  /\ LET v == FullViewport(rows)
         d == DebouncerRefresh(Debouncer, v[1], v[2])
     IN /\ debPending' = d.pending
        /\ debRange' = d.range
        /\ flushTimers' = d.timers
        /\ Requested(v[1], v[2])
  /\ Observe("scroll")
  /\ lastResult' = "void"
  /\ scrollRequests' = 0
  /\ UNCHANGED <<rows, elementHasRoot, focus, rowVars, liveVars, navVars,
                 dispVars, isMac, attachVars>>

\* _renderRows(start, end) dereferences this._rowElements[i] for start <= i <= end
renderRowsThrows(start, end) ==
  \E i \in start..end : disposed \/ ~Defined(rowElements, i)

\* the deferred flush fires: callback(rowStart, rowEnd), then the pending
\* state is cleared; an exception of the callback leaves it as it was
Flush ==
  /\ flushTimers > 0
  /\ flushTimers' = flushTimers - 1
  /\ lastRender' = debRange
  /\ IF renderRowsThrows(debRange[1], debRange[2])
     THEN /\ lastResult' = "threw"
          /\ UNCHANGED <<debPending, debRange, reqRange, reqCount>>
     ELSE /\ lastResult' = "void"
          /\ debPending' = FALSE
          /\ debRange' = <<>>
          /\ reqRange' = <<>>
          /\ UNCHANGED reqCount
  /\ lastEvent' = "flush"
  /\ lastKey' = 0
  /\ overflowCleared' = FALSE
  /\ shrunkFrom' = <<>>
  /\ scrollRequests' = 0
  /\ UNCHANGED <<termVars, rowVars, liveVars, navVars, dispVars, isMac, attachVars>>

\* ------------------------------------------------------------- LiveAnnouncer
\* the live region as a record [text, lines, queue, attached, timers]
Live == [text |-> liveText, lines |-> liveRegionLineCount, queue |-> charsToConsume,
         attached |-> liveAttached, timers |-> reattachTimers]

\* what one character adds to the live region: innerHTML += '&nbsp;' for a
\* space, textContent += char otherwise
appendChar(text, char) == IF char = " " THEN Append(text, Nbsp) ELSE Append(text, char)

\* _clearLiveRegion that leaves the line counter as it is
clearLiveRegionKeepsCount(L) ==
  [L EXCEPT !.text = <<>>,
            !.attached = IF isMac /\ L.attached THEN FALSE ELSE L.attached]

\* _clearLiveRegion (this._liveRegion is null once disposed)
clearLiveRegion(L) ==
  [L EXCEPT !.text = <<>>, !.lines = 0,
            !.attached = IF isMac /\ L.attached THEN FALSE ELSE L.attached]

\* announce(text) also forgetting the pending keystrokes
announceDropsQueue(L, text) ==
  [clearLiveRegion(L) EXCEPT !.text = <<text>>, !.queue = <<>>]

\* announce(text)
announce(L, text) == [clearLiveRegion(L) EXCEPT !.text = <<text>>]

\* the echo check reading the head of the queue without removing it
consumeCharPeek(L, char) ==
  IF Len(L.queue) > 0
  THEN [L EXCEPT !.text = IF Head(L.queue) # char THEN appendChar(L.text, char)
                                                   ELSE L.text]
  ELSE [L EXCEPT !.text = appendChar(L.text, char)]

\* the echo check of _onChar: the queue after it and the text after it
consumeChar(L, char) ==
  IF Len(L.queue) > 0
  THEN [L EXCEPT !.queue = Tail(L.queue),
                 !.text = IF Head(L.queue) # char THEN appendChar(L.text, char)
                                                   ELSE L.text]
  ELSE [L EXCEPT !.text = appendChar(L.text, char)]

\* the line count of _onChar and the notice at MAX_ROWS_TO_READ + 1
countLine(L, char) ==
  IF char = "\n"
  THEN [L EXCEPT !.lines = L.lines + 1,
                 !.text = IF L.lines + 1 = MAX_ROWS_TO_READ + 1
                          THEN Append(L.text, TooMuchOutput) ELSE L.text]
  ELSE L

\* the reattachment _onChar schedules on a Mac
scheduleReattach(L) ==
  IF isMac /\ Len(L.text) > 0 /\ ~L.attached
  THEN [L EXCEPT !.timers = L.timers + 1] ELSE L

\* _onChar guarded by <= instead of <
onCharLateGuard(L, char) ==
  IF L.lines <= MAX_ROWS_TO_READ + 1
  THEN scheduleReattach(countLine(consumeChar(L, char), char))
  ELSE L

onChar(L, char) ==
  IF L.lines < MAX_ROWS_TO_READ + 1
  THEN scheduleReattach(countLine(consumeChar(L, char), char))
  ELSE L

\* _onTab(spaceCount)
RECURSIVE onTab(_, _)
onTab(L, spaceCount) ==
  IF spaceCount > 0 THEN onTab(onChar(L, " "), spaceCount - 1) ELSE L

\* _onKey(keyChar)
onKey(L, keyChar) ==
  LET C == clearLiveRegion(L) IN [C EXCEPT !.queue = Append(C.queue, keyChar)]

SetLive(L) ==
  /\ liveText' = L.text
  /\ liveRegionLineCount' = L.lines
  /\ charsToConsume' = L.queue
  /\ liveAttached' = L.attached
  /\ reattachTimers' = L.timers

\* tokens of the live text that are neither line terminators nor the notice
Printable(text) == Len(SelectSeq(text, LAMBDA t : t # "\n" /\ t # TooMuchOutput))

LiveWithinBounds(L) ==
  /\ Printable(L.text) <= MaxText
  /\ Len(L.queue) <= MaxQueue
  /\ L.timers <= MaxTimers

LiveFrame ==
  UNCHANGED <<termVars, rowVars, debVars, navVars, reqRange, reqCount, dispVars, isMac, attachVars>>

\* 'a11y.char' from the terminal
OnChar(char) ==
  /\ ~disposed
  /\ LiveWithinBounds(onChar(Live, char))
  /\ SetLive(onChar(Live, char))
  /\ Observe(IF lastEvent = "key" THEN "char after key" ELSE "char")
  /\ lastResult' = "void"
  /\ scrollRequests' = 0
  /\ LiveFrame

\* 'linefeed' from the terminal
OnLinefeed ==
  /\ ~disposed
  /\ LiveWithinBounds(onChar(Live, "\n"))
  /\ SetLive(onChar(Live, "\n"))
  /\ Observe(IF lastEvent = "key" THEN "char after key" ELSE "char")
  /\ lastResult' = "void"
  /\ scrollRequests' = 0
  /\ LiveFrame

\* 'a11y.tab' from the terminal
OnTab(spaceCount) ==
  /\ ~disposed
  /\ LiveWithinBounds(onTab(Live, spaceCount))
  /\ SetLive(onTab(Live, spaceCount))
  /\ Observe("tab")
  /\ lastResult' = "void"
  /\ scrollRequests' = 0
  /\ LiveFrame

\* 'key' from the terminal
OnKey(keyChar) ==
  /\ ~disposed
  /\ LiveWithinBounds(onKey(Live, keyChar))
  /\ SetLive(onKey(Live, keyChar))
  /\ ObserveClear("key")
  /\ lastResult' = "void"
  /\ scrollRequests' = 0
  /\ LiveFrame

\* 'blur' from the terminal
OnBlur ==
  /\ ~disposed
  /\ SetLive(clearLiveRegion(Live))
  /\ ObserveClear("blur")
  /\ lastResult' = "void"
  /\ scrollRequests' = 0
  /\ LiveFrame

\* announce(text), a public method
Announce(text) ==
  /\ ~disposed
  /\ SetLive(announce(Live, text))
  /\ ObserveClear("announce")
  /\ lastResult' = "void"
  /\ scrollRequests' = 0
  /\ LiveFrame

\* the setTimeout(..., 0) of _onChar fires:
\* this._accessibilityTreeRoot.appendChild(this._liveRegion)
Reattach ==
  /\ reattachTimers > 0
  /\ reattachTimers' = reattachTimers - 1
  /\ IF disposed
     THEN lastResult' = "threw" /\ UNCHANGED liveAttached
     ELSE lastResult' = "void" /\ liveAttached' = TRUE
  /\ Observe("reattach")
  /\ scrollRequests' = 0
  /\ UNCHANGED <<liveText, liveRegionLineCount, charsToConsume>>
  /\ LiveFrame

\* ------------------------------------------------------------ NavigationMode
\* document.querySelector('#' + activeItemId): the first row node of the
\* document that carries the id, <<>> when there is none
querySelector ==
  LET hits == SelectSeq(rowContainerChildren, LAMBDA n : n \in idAttr)
  IN IF elementHasRoot /\ Len(hits) > 0 THEN <<hits[1]>> ELSE <<>>

\* the previously selected node keeps its id
removeSelectedIdForgotten(ids, selected) == ids

\* selected.removeAttribute('id') when selected is not null
removeSelectedId(ids, selected) ==
  IF selected = <<>> THEN ids ELSE ids \ {selected[1]}

\* _navigateToElement whose scroll branch returns without scrolling
navigateToElementNoScroll(row) ==
  IF row < 0 /\ ydisp > 0
  THEN [focused |-> navigationModeFocusedRow, ids |-> idAttr,
        scrolled |-> FALSE, threw |-> FALSE]
  ELSE LET cleared == removeSelectedId(idAttr, querySelector)
       IN IF Defined(rowElements, row)
          THEN [focused |-> <<row>>, ids |-> cleared \cup {rowElements[row + 1]},
                scrolled |-> FALSE, threw |-> FALSE]
          ELSE [focused |-> <<row>>, ids |-> cleared,
                scrolled |-> FALSE, threw |-> TRUE]

\* _navigateToElement(row): [focused, ids, scrolled, threw]
navigateToElement(row) ==
  IF row < 0 /\ ydisp > 0
  THEN [focused |-> navigationModeFocusedRow, ids |-> idAttr,
        scrolled |-> TRUE, threw |-> FALSE]
  ELSE LET cleared == removeSelectedId(idAttr, querySelector)
       IN IF Defined(rowElements, row)
          THEN [focused |-> <<row>>, ids |-> cleared \cup {rowElements[row + 1]},
                scrolled |-> FALSE, threw |-> FALSE]
          ELSE [focused |-> <<row>>, ids |-> cleared,
                scrolled |-> FALSE, threw |-> TRUE]

\* terminal.scrollLines(-1) moves the viewport one line back and emits
\* 'scroll', whose listener calls _refreshRows()
ApplyNavigation(nav) ==
  /\ navigationModeFocusedRow' = nav.focused
  /\ idAttr' = nav.ids
  /\ scrollRequests' = IF nav.scrolled THEN 1 ELSE 0
  /\ IF nav.scrolled
     THEN LET v == FullViewport(rows)
              d == DebouncerRefresh(Debouncer, v[1], v[2])
          IN /\ ydisp' = ydisp - 1
             /\ debPending' = d.pending
             /\ debRange' = d.range
             /\ flushTimers' = d.timers
             /\ Requested(v[1], v[2])
     ELSE UNCHANGED <<ydisp, debVars, reqRange, reqCount>>

\* enter(), reached through enterNavigationMode(); y is terminal.buffer.y
Enter(y) ==
  /\ ~disposed
  /\ LET nav == navigateToElement(y)
     IN /\ isNavigationModeActive' = TRUE
        /\ SetLive(announce(Live, EnteredMessage))
        /\ containerTabIndex' = TRUE
        /\ containerRole' = TRUE
        /\ containerActiveDescendant' = TRUE
        /\ focus' = "rowContainer"
        /\ ApplyNavigation(nav)
        /\ lastResult' = IF nav.threw THEN "threw" ELSE "void"
  /\ ObserveClear("enter")
  /\ UNCHANGED <<rows, elementHasRoot, rowVars, dispVars, isMac, attachVars>>

\* leave() without the textarea.focus() call
leaveKeepsFocus ==
  /\ isNavigationModeActive' = FALSE
  /\ SetLive(announce(Live, LeftMessage))
  /\ containerTabIndex' = FALSE
  /\ containerActiveDescendant' = FALSE
  /\ containerRole' = FALSE
  /\ idAttr' = removeSelectedId(idAttr, querySelector)
  /\ UNCHANGED focus

\* leave()
leave ==
  /\ isNavigationModeActive' = FALSE
  /\ SetLive(announce(Live, LeftMessage))
  /\ containerTabIndex' = FALSE
  /\ containerActiveDescendant' = FALSE
  /\ containerRole' = FALSE
  /\ idAttr' = removeSelectedId(idAttr, querySelector)
  /\ focus' = "textarea"

\* _onEscape
onEscape ==
  /\ leave
  /\ lastResult' = "true"
  /\ scrollRequests' = 0
  /\ UNCHANGED <<navigationModeFocusedRow, ydisp, debVars, reqRange, reqCount>>

\* _onArrowUp and _onArrowDown: _navigateToElement(focused + delta), then
\* rowContainer.focus(), then return true
onArrow(delta) ==
  LET nav == navigateToElement(navigationModeFocusedRow[1] + delta)
  IN /\ ApplyNavigation(nav)
     /\ focus' = IF nav.threw THEN focus ELSE "rowContainer"
     /\ lastResult' = IF nav.threw THEN "threw" ELSE "true"
     /\ UNCHANGED <<isNavigationModeActive, liveVars, containerTabIndex,
                    containerRole, containerActiveDescendant>>

onArrowUp == onArrow(-1)
onArrowDown == onArrow(1)

\* nothing of the navigation state changes
NavIdle ==
  /\ scrollRequests' = 0
  /\ UNCHANGED <<navVars, liveVars, ydisp, focus, debVars, reqRange, reqCount>>

\* the switch of onKeyUp
onKeyUp(keyCode) ==
  CASE keyCode = KeyEscape -> onEscape
    [] keyCode = KeyArrowUp -> onArrowUp
    [] keyCode = KeyArrowDown -> onArrowDown
    [] OTHER -> lastResult' = "false" /\ NavIdle

\* onKeyDown reporting the key as not handled
onKeyDownPassThrough(keyCode) ==
  /\ lastResult' = "false"
  /\ NavIdle

\* onKeyDown
onKeyDown(keyCode) ==
  /\ lastResult' = IF isNavigationModeActive THEN "true" ELSE "false"
  /\ NavIdle

FocusedRowWithinBounds ==
  IF navigationModeFocusedRow' = <<>> THEN TRUE
  ELSE /\ navigationModeFocusedRow'[1] >= 0 - MaxOvershoot
       /\ navigationModeFocusedRow'[1] <= MaxRows - 1 + MaxOvershoot

\* the 'keyup' listener of the row container
KeyUp(keyCode) ==
  /\ ~disposed
  /\ IF isNavigationModeActive
     THEN onKeyUp(keyCode)
     ELSE lastResult' = "false" /\ NavIdle
  /\ FocusedRowWithinBounds
  /\ ObserveKey("keyup", keyCode, isNavigationModeActive /\ keyCode = KeyEscape)
  /\ UNCHANGED <<rows, elementHasRoot, rowVars, dispVars, isMac, attachVars>>

\* the 'keydown' listener of the row container
KeyDown(keyCode) ==
  /\ ~disposed
  /\ IF isNavigationModeActive
     THEN onKeyDown(keyCode)
     ELSE lastResult' = "false" /\ NavIdle
  /\ ObserveKey("keydown", keyCode, FALSE)
  /\ UNCHANGED <<rows, elementHasRoot, rowVars, dispVars, isMac, attachVars>>

\* ------------------------------------------------------------------- dispose
\* dispose(): terminal.element.removeChild(this._accessibilityTreeRoot), the
\* disposables are disposed, the fields are set to null
Dispose ==
  /\ disposeCalls < MaxDispose
  /\ disposeCalls' = disposeCalls + 1
  /\ elementCalls' = elementCalls + 1
  /\ IF disposed
     THEN /\ lastResult' = "threw"
          /\ UNCHANGED <<disposed, elementHasRoot>>
     ELSE /\ lastResult' = "void"
          /\ disposed' = TRUE
          /\ elementHasRoot' = FALSE
  /\ Observe("dispose")
  /\ scrollRequests' = 0
  /\ UNCHANGED <<rows, ydisp, focus, rowVars, liveVars, debVars, navVars,
                 reqRange, reqCount, isMac, attachVars>>

\* --------------------------------------------------------------- attach addon
\* payloads a message can carry: the empty text and one-character texts
Payloads == {<<>>, <<"x">>, <<"y">>}

\* the 'message' events of the socket: ev.data is a string, an ArrayBuffer
\* (text is what TextDecoder.decode gives for it) or a Blob
MessageEvents ==
  [type : {"string", "arraybuffer"}, text : Payloads] \cup {[type |-> "blob", text |-> <<>>]}

\* what an ArrayBuffer becomes when + converts it to a string
ObjectArrayBuffer == "[object ArrayBuffer]"

\* ToBoolean(v): null, undefined and '' are falsy, objects are truthy
Truthy(v) == v.kind = "obj" \/ (v.kind = "str" /\ Len(v.text) > 0)

\* the string conversion of v
toString(v) ==
  IF v.kind = "obj" THEN <<ObjectArrayBuffer>>
  ELSE IF v.kind = "null" THEN <<"null">>
  ELSE v.text

\* a + b where one operand is a string
Plus(a, b) == String(toString(a) \o toString(b))

\* a || b
Or(a, b) == IF Truthy(a) THEN a ELSE b

\* the addon state as a record
Attached == [buffer |-> attachSocketBuffer, timers |-> attachTimers,
             written |-> attachWritten, lastWrite |-> attachLastWrite]

\* term.write(data): the strings the terminal received, and the kind of the
\* last argument
write(A, data) ==
  [A EXCEPT !.written = IF data.kind = "str" THEN A.written \o data.text ELSE A.written,
            !.lastWrite = data.kind]

\* term._flushBuffer
flushBuffer(A) == [write(A, A.buffer) EXCEPT !.buffer = Undefined]

\* term._pushToBuffer
pushToBuffer(A, data) ==
  IF Truthy(A.buffer)
  THEN [A EXCEPT !.buffer = Plus(A.buffer, data)]
  ELSE [A EXCEPT !.buffer = data, !.timers = A.timers + 1]

\* str of term._getMessage: the decoded text of an ArrayBuffer, else undefined
decoded(ev) == IF ev.type = "arraybuffer" THEN String(ev.text) ELSE Undefined

\* ev.data as a value
evData(ev) == IF ev.type = "string" THEN String(ev.text) ELSE ArrayBufferObject

\* term._getMessage for a string or an ArrayBuffer
getMessage(A, ev, buffered) ==
  IF buffered
  THEN pushToBuffer(A, Or(decoded(ev), evData(ev)))
  ELSE write(A, Or(decoded(ev), evData(ev)))

SetAttached(A) ==
  /\ attachSocketBuffer' = A.buffer
  /\ attachTimers' = A.timers
  /\ attachWritten' = A.written
  /\ attachLastWrite' = A.lastWrite

\* the socket delivers a 'message' event to term._getMessage; a Blob makes it
\* throw before anything is buffered or written
Message(ev) ==
  /\ attachListening
  /\ attachMessages < MaxMessages
  /\ attachMessages' = attachMessages + 1
  /\ IF ev.type = "blob"
     THEN UNCHANGED <<attachSocketBuffer, attachTimers, attachWritten,
                      attachLastWrite, attachReceived>>
     ELSE /\ SetAttached(getMessage(Attached, ev, attachBuffered))
          /\ attachReceived' = attachReceived \o ev.text
  /\ UNCHANGED <<attachBuffered, attachListening, a11yVars>>

\* a setTimeout(term._flushBuffer, 10) fires
FlushBuffer ==
  /\ attachTimers > 0
  /\ SetAttached([flushBuffer(Attached) EXCEPT !.timers = attachTimers - 1])
  /\ UNCHANGED <<attachBuffered, attachListening, attachReceived, attachMessages,
                 a11yVars>>

\* detach(term, socket), also the 'close' and 'error' listener of the socket
Detach ==
  /\ attachListening
  /\ attachListening' = FALSE
  /\ UNCHANGED <<attachBuffered, attachSocketBuffer, attachTimers, attachWritten,
                 attachLastWrite, attachReceived, attachMessages, a11yVars>>

\* ------------------------------------------------------------ specifications
Ranges == {<<s, e>> \in (0..(MaxRows - 1)) \X (0..(MaxRows - 1)) : s <= e}

RowEvents ==
  \/ \E r \in 1..MaxRows : Resize(r)
  \/ \E a \in Ranges : a[2] < rows /\ Refresh(a[1], a[2])
  \/ \E y \in 0..MaxYdisp : Scroll(y)
  \/ Flush

NavEvents ==
  \/ \E y \in 0..(rows - 1) : Enter(y)
  \/ \E k \in KeyCodes : KeyUp(k)
  \/ \E k \in KeyCodes : KeyDown(k)

LiveEvents ==
  \/ \E c \in Chars : OnChar(c)
  \/ OnLinefeed
  \/ \E n \in 0..MaxTab : OnTab(n)
  \/ \E k \in Chars : OnKey(k)
  \/ OnBlur
  \/ \E t \in {EnteredMessage, LeftMessage} : Announce(t)
  \/ Reattach

\* the row mirror, the debouncer and the navigation mode
Next == RowEvents \/ NavEvents \/ Dispose

Spec == Init /\ [][Next]_vars

\* a scheduled flush always fires
SpecFair == Init /\ [][Next]_vars /\ WF_vars(Flush)

\* the live announcer
NextLive == LiveEvents \/ Dispose

SpecLive == Init /\ [][NextLive]_vars

\* the attach addon after attach(term, socket, bidirectional, buffered)
NextAttach ==
  \/ \E ev \in MessageEvents : Message(ev)
  \/ FlushBuffer
  \/ Detach

SpecAttach == InitAttach /\ [][NextAttach]_vars

\* -------------------------------------------------------------------- claims
NoticeCount(text) == Len(SelectSeq(text, LAMBDA t : t = TooMuchOutput))

MarkedRows == {k \in 1..Len(rowElements) : rowElements[k] \in idAttr}

OtherKeys == KeyCodes \ {KeyEscape, KeyArrowUp, KeyArrowDown}

\* C1: after every resize event the number of mirrored rows (the array and
\* the children of the row container) equals the terminal's row count, and
\* the handler completed.
C1_RowCountFollowsResize ==
  lastEvent = "resize" =>
    /\ Len(rowElements) = rows
    /\ Len(rowContainerChildren) = rows
    /\ lastResult = "void"

C1_Witness ==
  /\ lastEvent = "resize"
  /\ rows # InitRows
  /\ nodesCreated > InitRows
  /\ Len(rowElements) = rows

C3_EchoSuppressedAlways ==
  [][\A c \in Chars :
       (lastEvent = "key" /\ OnChar(c)) =>
         IF c = Last(charsToConsume)
         THEN liveText' = liveText
         ELSE liveText' = appendChar(liveText, c)]_vars

\* C3 amended: when the pending-keystroke queue is empty before onKey(k),
\* onKey(k) immediately followed by onChar(c) leaves the live buffer empty
\* when c = k and makes it exactly c (a space as a non-breaking space) when
\* c # k.
C3_EchoSuppressedOnEmptyQueue ==
  [][\A c \in Chars :
       (lastEvent = "key" /\ Len(charsToConsume) = 1 /\ OnChar(c)) =>
         /\ charsToConsume' = <<>>
         /\ IF c = charsToConsume[1]
            THEN liveText' = <<>>
            ELSE liveText' = appendChar(<<>>, c)]_vars

C3_Witness ==
  /\ lastEvent = "char after key"
  /\ charsToConsume = <<>>
  /\ liveText = <<>>
  /\ liveRegionLineCount = 0

\* C4: the line counter never exceeds MAX_ROWS_TO_READ + 1; the notice is in
\* the live buffer exactly once, as its last token, exactly when the counter
\* is at MAX_ROWS_TO_READ + 1; from then on character output (onChar, onTab)
\* changes neither the live buffer nor the counter.
C4_OverflowNoticeOnce ==
  [][/\ liveRegionLineCount' <= MAX_ROWS_TO_READ + 1
     /\ NoticeCount(liveText') = (IF Overflowed' THEN 1 ELSE 0)
     /\ Overflowed' => Last(liveText') = TooMuchOutput
     /\ (Overflowed /\ lastEvent' \in {"char", "char after key", "tab"}) =>
          UNCHANGED <<liveText, liveRegionLineCount>>]_vars

C4_Witness ==
  /\ Overflowed
  /\ lastEvent = "char"
  /\ NoticeCount(liveText) = 1

\* C5: with navigation active, the focused row 0 and the viewport offset 0,
\* arrow-up keeps the focused row at 0 and returns true without an error.
C5_ArrowUpClampsAtTop ==
  [][(/\ isNavigationModeActive
      /\ navigationModeFocusedRow = <<0>>
      /\ ydisp = 0
      /\ KeyUp(KeyArrowUp)) =>
       (navigationModeFocusedRow' = <<0>> /\ lastResult' = "true")]_vars

\* C6: enter() from the inactive state makes the mode active; Escape while
\* active makes it inactive, strips tabindex, role and aria-activedescendant
\* from the row container and focuses the terminal's textarea.
C6_EnterEscapeRoundTrip ==
  [][/\ (~isNavigationModeActive /\ \E y \in 0..(rows - 1) : Enter(y)) =>
          isNavigationModeActive'
     /\ (isNavigationModeActive /\ KeyUp(KeyEscape)) =>
          /\ ~isNavigationModeActive'
          /\ ~containerTabIndex'
          /\ ~containerRole'
          /\ ~containerActiveDescendant'
          /\ focus' = "textarea"
          /\ lastResult' = "true"]_vars

C6_Witness ==
  /\ lastEvent = "keyup"
  /\ lastKey = KeyEscape
  /\ lastResult = "true"
  /\ ~isNavigationModeActive
  /\ focus = "textarea"

\* C7: a second dispose() does not throw and calls no collaborator.
C7_DisposeIdempotent ==
  (lastEvent = "dispose" /\ disposeCalls >= 2) =>
    (lastResult # "threw" /\ elementCalls <= 1)

\* C8: at most one mirrored row node carries the active item id.
C8_AtMostOneMarker == Cardinality(MarkedRows) <= 1

C8_Witness ==
  /\ lastEvent = "keyup"
  /\ lastKey = KeyArrowDown
  /\ lastResult = "true"
  /\ nodesCreated > InitRows
  /\ Cardinality(MarkedRows) = 1

\* C9: while navigation is active the focused row index is in 0 .. rows-1.
C9_FocusedRowInRange ==
  isNavigationModeActive =>
    /\ navigationModeFocusedRow # <<>>
    /\ navigationModeFocusedRow[1] >= 0
    /\ navigationModeFocusedRow[1] < rows

\* C10 as stated: while navigation is active every key-down and key-up of a
\* key other than Escape, Arrow-Up and Arrow-Down returns true and changes
\* neither the active flag nor the focused row.
C10_OtherKeysSwallowed ==
  [][\A k \in OtherKeys :
       (isNavigationModeActive /\ (KeyUp(k) \/ KeyDown(k))) =>
         /\ lastResult' = "true"
         /\ UNCHANGED <<isNavigationModeActive, navigationModeFocusedRow>>]_vars

\* C10 amended: while navigation is active a key-down of such a key returns
\* true, a key-up of such a key returns false, and neither changes the
\* active flag or the focused row.
C10_OtherKeyDownSwallowed ==
  [][\A k \in OtherKeys :
       /\ (isNavigationModeActive /\ KeyDown(k)) =>
            /\ lastResult' = "true"
            /\ UNCHANGED <<isNavigationModeActive, navigationModeFocusedRow>>
       /\ (isNavigationModeActive /\ KeyUp(k)) =>
            /\ lastResult' = "false"
            /\ UNCHANGED <<isNavigationModeActive, navigationModeFocusedRow>>]_vars

C10_Witness ==
  /\ lastEvent = "keydown"
  /\ lastKey = KeyOther
  /\ lastResult = "true"
  /\ isNavigationModeActive

\* C11: in every state, the overflowed one included, onKey(char) empties the
\* live buffer, sets the line counter to 0 and appends exactly char to the
\* tail of the pending-keystroke queue, so that character output is accepted
\* again.
C11_KeyResetsAndQueues ==
  [][\A k \in Chars :
       OnKey(k) =>
         /\ liveText' = <<>>
         /\ liveRegionLineCount' = 0
         /\ charsToConsume' = Append(charsToConsume, k)
         /\ ~Overflowed']_vars

C11_Witness ==
  /\ lastEvent = "key"
  /\ overflowCleared
  /\ liveText = <<>>
  /\ liveRegionLineCount = 0
  /\ Len(charsToConsume) > 0

\* range r contains range a
Covers(r, a) == r # <<>> /\ r[1] <= a[1] /\ a[2] <= r[2]

\* C12: every range requested by a refresh or scroll notification is
\* eventually written by a flush that completes and whose range contains it,
\* unless the manager is disposed first.
C12_NoNotificationLost ==
  \A a \in Ranges :
    Covers(reqRange, a) ~>
      \/ disposed
      \/ lastEvent = "flush" /\ lastResult = "void" /\ Covers(lastRender, a)

\* C13: a deferred row flush or live-node reattachment that fires after
\* dispose() raises no error.
C13_DeferredAfterDisposeIsNoOp ==
  (disposed /\ lastEvent \in {"flush", "reattach"}) => lastResult # "threw"

\* C14 as stated: a shrinking resize immediately followed by a resize back to
\* the original row count restores the row identities of before the shrink.
C14_RegrowRestoresIdentities ==
  [][\A r \in 1..MaxRows :
       (shrunkFrom # <<>> /\ r = Len(shrunkFrom) /\ Resize(r)) =>
         rowElements' = shrunkFrom]_vars

\* C14: a resize from n to m rows leaves m rows, every row at an index below
\* min(n, m) keeps its identity and its index, and every row added at the end
\* is a node that did not exist before.
C14_ResizeKeepsPrefix ==
  [][\A r \in 1..MaxRows :
       (rows' = r /\ Resize(r)) =>
         /\ Len(rowElements') = r
         /\ \A i \in 1..Min(Len(rowElements), r) : rowElements'[i] = rowElements[i]
         /\ \A i \in (Len(rowElements) + 1)..r : rowElements'[i] > nodesCreated]_vars

\* a resize has regrown the row list after an earlier shrink: the last row is
\* the newest node and some older node has been discarded
C14_Witness ==
  /\ lastEvent = "resize"
  /\ Len(rowElements) > 1
  /\ rowElements[Len(rowElements)] = nodesCreated
  /\ nodesCreated > Len(rowElements)

\* the queue q with its first j entries removed
DropHead(q, j) == SubSeq(q, j + 1, Len(q))

C16_OneFlushPending ==
  attachBuffered => (attachTimers <= 1 /\ attachLastWrite # "null")

\* C17: while the manager is not disposed, every row a flush writes has an
\* index inside the current row list, whatever resizes came before the flush.
C17_FlushWithinRowSet ==
  (lastEvent = "flush" /\ ~disposed) =>
    (lastResult # "threw" /\ lastRender[2] < Len(rowElements))

\* C18: with navigation mode active, arrow-up from focused row 0 while the
\* viewport offset is above 0 issues exactly one scroll-back-by-one-line
\* request, leaves the focused row at 0 and leaves the marker where it was.
C18_ArrowUpAtTopScrollsBack ==
  [][(/\ isNavigationModeActive
      /\ navigationModeFocusedRow = <<0>>
      /\ ydisp > 0
      /\ KeyUp(KeyArrowUp)) =>
        /\ scrollRequests' = 1
        /\ ydisp' = ydisp - 1
        /\ navigationModeFocusedRow' = <<0>>
        /\ idAttr' = idAttr
        /\ lastResult' = "true"]_vars

\* arrow-up has just scrolled back one line with row 0 focused and marked
C18_Witness ==
  /\ lastEvent = "keyup"
  /\ lastKey = KeyArrowUp
  /\ scrollRequests = 1
  /\ isNavigationModeActive
  /\ navigationModeFocusedRow = <<0>>
  /\ idAttr = {rowElements[1]}

\* C19: on a Mac, whenever the live region holds text, the live node is
\* attached to the accessibility tree or a reattachment is already scheduled.
C19_TextIsAttachedOrScheduled ==
  (isMac /\ ~disposed /\ Len(liveText) > 0) =>
    (liveAttached \/ reattachTimers > 0)

\* C20: in buffered mode, once no flush is pending, the strings written to
\* the terminal concatenate to the received payloads in arrival order.
C20_WrittenEqualsReceived ==
  (attachBuffered /\ attachTimers = 0) => attachWritten = attachReceived

====
